---- MODULE Spec2Model ----
(***************************************************************************)
(* Co-Agent-Recruitment: the extractors (parse_resume, analyze_job_posting,*)
(* generate_compatibility_score), the durable session store                *)
(* (FirestoreSessionService), the session callbacks of the orchestrator    *)
(* agent and the dispatcher (OrchestratorAgentRunner.run_async with the    *)
(* /orchestrator endpoint on top of it).                                   *)
(*                                                                         *)
(* The specifications share the variables:                                 *)
(*   SpecExt    calls of the three extractors, with the model layer's      *)
(*              outcomes chosen nondeterministically;                      *)
(*   SpecStore  direct calls of the session service's operations;          *)
(*   Spec       concurrent dispatcher turns over the session store;        *)
(*   SpecSeq    the same turns, one at a time;                             *)
(*   SpecRetry  calls of functions wrapped by the retry decorator, and of  *)
(*              emit_event, against an operation that fails some number of *)
(*              times before it succeeds.                                  *)
(*   SpecSan    one call of sanitize_input on a text of a few pieces.      *)
(*   SpecDoc    calls of process_document_json and of the two HTTP         *)
(*              endpoints of the JSON API on a document of a few pieces.   *)
(*   SpecJson   one call of parse_dirty_json on a text of a few tokens, or *)
(*              on a serialized payload with commentary around it.         *)
(***************************************************************************)
EXTENDS Integers, Sequences, FiniteSets, TLC

\* ------------------------------------------------------------------ bounds
MaxTurns == 2
MaxSessions == 2
MaxEvents == 2
MaxCalls == 2
MaxFailures == 5
MaxPublished == 1
MaxDeliveries == 2
MaxPieces == 4
MaxBlob == 4
MaxDoc == 2

\* ------------------------------------------------------- program constants
MAX_INPUT_SIZE == 50000
APP_NAME == "co_agent_recruitment"
DEFAULT_MAX_RETRIES == 3
FIRESTORE_MAX_RETRIES == 3

VARIABLES
    calls,      \* the direct calls made (extractors, wrapped functions), with their results
    sessions,   \* the Firestore collection: document id -> session document
    next_uuid,  \* how many uuid4() session ids have been generated
    begun,      \* per session id: the before-callbacks that ran and were persisted
    api,        \* the last direct call of a session service operation, with its outcome
    turns,      \* per run_async call: its position and locals
    published   \* the messages on the Pub/Sub topic, with their deliveries

vars == <<calls, sessions, next_uuid, begun, api, turns, published>>

\* ===================================================================== ids
NoId == <<"none", 0>>
BlankId == <<"blank", 0>>
GenIds == {"uuid"} \X (1..MaxSessions)
CallerIds == {<<"caller", 1>>}

\* A caller's id written with surrounding whitespace: " caller-1 ".
PaddedIds == {<<"padded", 1>>}
AllIds == GenIds \cup CallerIds
Users == {"u1", "u2"}

\* ============================================================== extractors
\* A text is a sequence of pieces: the fragments the sanitizer's patterns are
\* made of, a blank, and runs of the letter A (one letter, or MAX_INPUT_SIZE).
Blank == " "
RunOne == "A*1"
RunMax == "A*MAX"
Pieces ==
    {"<script", ">", "</script>", "java", "JAVA", "script:", "on", "="}
        \cup {Blank, RunOne, RunMax}

\* The keywords process_document_json looks for, and the pieces of a document:
\* some of the keywords (one in capitals), a blank, a run of letters.
job_keywords ==
    {"responsibilities", "requirements", "qualifications", "we are seeking",
     "job description", "position", "role", "company", "salary", "benefits",
     "apply", "hiring", "candidate", "experience required"}
resume_keywords ==
    {"education", "work experience", "skills", "projects", "certifications",
     "objective", "summary", "achievements", "accomplishments"}
KeywordPieces == {"requirements", "salary", "education", "SKILLS", "skills"}
AllPieces == Pieces \cup KeywordPieces

\* len(piece), in characters.
piece_len(piece) ==
    CASE piece = "<script" -> 7   [] piece = ">" -> 1      [] piece = "</script>" -> 9
      [] piece = "java" -> 4      [] piece = "JAVA" -> 4   [] piece = "script:" -> 7
      [] piece = "on" -> 2        [] piece = "=" -> 1      [] piece = Blank -> 1
      [] piece = RunOne -> 1      [] piece = RunMax -> MAX_INPUT_SIZE
      [] piece = "requirements" -> 12   [] piece = "salary" -> 6
      [] piece = "education" -> 9       [] piece \in {"SKILLS", "skills"} -> 6

RECURSIVE text_len(_)
text_len(body) ==
    IF body = <<>> THEN 0 ELSE piece_len(Head(body)) + text_len(Tail(body))

\* An input: a str with its content and len(), or a value that is no str.
Text(body) == [is_str |-> TRUE, len |-> text_len(body), body |-> body]
NonStr == [is_str |-> FALSE, len |-> 0, body |-> <<>>]

\* The inputs the extractors are called with: no str, the empty text, and
\* texts of 1, MAX_INPUT_SIZE and MAX_INPUT_SIZE + 1 characters.
Inputs ==
    {NonStr} \cup {Text(body) : body \in {<<>>, <<RunOne>>, <<RunMax>>, <<RunMax, RunOne>>}}

\* What the model layer does when asked: building the agent, then running it.
ConstructOutcomes == {"ok", "fail"}
RunOutcomes == {"ok", "validation_error", "model_error"}

\* str.lower() of a piece, for the patterns' re.IGNORECASE and for
\* sanitized_text.lower().
lower(piece) ==
    IF piece = "JAVA" THEN "java" ELSE IF piece = "SKILLS" THEN "skills" ELSE piece

\* The least index from `from` on whose piece is one of kinds, or 0.
FirstIndex(body, from, kinds) ==
    LET hits == {i \in from..Len(body) : lower(body[i]) \in kinds}
    IN IF hits = {} THEN 0 ELSE CHOOSE i \in hits : \A j \in hits : i <= j

\* Where a match of <script[^>]*>.*?</script> that starts at the head of body
\* ends: [^>]* runs to the first ">", .*? to the first </script> after it.
script_match_end(body) ==
    IF body = <<>> \/ lower(Head(body)) # "<script" THEN 0
    ELSE LET tag_end == FirstIndex(body, 2, {">", "</script>"})
         IN IF tag_end = 0 THEN 0 ELSE FirstIndex(body, tag_end + 1, {"</script>"})

\* Where a match of javascript: at the head of body ends.
javascript_match_end(body) ==
    IF Len(body) >= 2 /\ lower(body[1]) = "java" /\ lower(body[2]) = "script:"
    THEN 2 ELSE 0

\* The pieces of word characters (\w) only, lowered.
IsWord == {"java", "on", RunOne, RunMax} \cup KeywordPieces

\* Where a match of on\w+\s*= at the head of body ends: the word characters
\* after "on", then the blanks, then "=".
handler_match_end(body) ==
    IF body = <<>> \/ lower(Head(body)) # "on" THEN 0
    ELSE LET after_word == FirstIndex(body, 2, AllPieces \ IsWord)
             after_blank == IF after_word = 0 THEN 0
                            ELSE FirstIndex(body, after_word, AllPieces \ {Blank})
         IN IF after_word > 2 /\ after_blank # 0 /\ body[after_blank] = "="
            THEN after_blank ELSE 0

\* re.sub(pattern, "", body): the matches are found left to right in one pass
\* over the text and dropped; what is left is not searched again.
SCRIPT_BLOCK == "<script[^>]*>.*?</script>"
JAVASCRIPT_URL == "javascript:"
EVENT_HANDLER == "on\\w+\\s*="

match_end(pattern, body) ==
    CASE pattern = SCRIPT_BLOCK -> script_match_end(body)
      [] pattern = JAVASCRIPT_URL -> javascript_match_end(body)
      [] pattern = EVENT_HANDLER -> handler_match_end(body)

RECURSIVE re_sub(_, _)
re_sub(pattern, body) ==
    IF body = <<>> THEN <<>>
    ELSE IF match_end(pattern, body) # 0
    THEN re_sub(pattern, SubSeq(body, match_end(pattern, body) + 1, Len(body)))
    ELSE <<Head(body)>> \o re_sub(pattern, Tail(body))

\* str.strip(): the blanks at both ends go.
RECURSIVE lstrip(_)
lstrip(body) ==
    IF body # <<>> /\ Head(body) = Blank THEN lstrip(Tail(body)) ELSE body

RECURSIVE rstrip(_)
rstrip(body) ==
    IF body # <<>> /\ body[Len(body)] = Blank
    THEN rstrip(SubSeq(body, 1, Len(body) - 1)) ELSE body

sanitize_input_at_limit(text) ==
    IF ~text.is_str \/ text.len = 0
    THEN [ok |-> FALSE, error |-> "ValueError", output |-> <<>>]
    ELSE IF text.len >= MAX_INPUT_SIZE
    THEN [ok |-> FALSE, error |-> "ValueError", output |-> <<>>]
    ELSE [ok |-> TRUE, error |-> "none",
          output |-> rstrip(lstrip(re_sub(EVENT_HANDLER,
                                 re_sub(JAVASCRIPT_URL,
                                    re_sub(SCRIPT_BLOCK, text.body)))))]

sanitize_input(text) ==
    IF ~text.is_str \/ text.len = 0
    THEN [ok |-> FALSE, error |-> "ValueError", output |-> <<>>]
    ELSE IF text.len > MAX_INPUT_SIZE
    THEN [ok |-> FALSE, error |-> "ValueError", output |-> <<>>]
    ELSE [ok |-> TRUE, error |-> "none",
          output |-> rstrip(lstrip(re_sub(EVENT_HANDLER,
                                 re_sub(JAVASCRIPT_URL,
                                    re_sub(SCRIPT_BLOCK, text.body)))))]

\* An exception leaving the extractor.
Raised(extractor, exc, model_called) ==
    [extractor |-> extractor, raised |-> TRUE, exception |-> exc,
     operation_status |-> "none", data |-> "none", error |-> "none",
     error_details |-> "none", model_called |-> model_called]

Returned(extractor, status, data, error, details, model_called) ==
    [extractor |-> extractor, raised |-> FALSE, exception |-> "none",
     operation_status |-> status, data |-> data, error |-> error,
     error_details |-> details, model_called |-> model_called]

parse_resume_error_placeholder(model_called) ==
    Returned("parse_resume", "error", "placeholder", "type_name", "none", model_called)

\* parse_resume's except branch: resume_data None, the error names the exception type.
parse_resume_error(model_called) ==
    Returned("parse_resume", "error", "null", "type_name", "none", model_called)

parse_resume(resume_text, construct, run) ==
    IF ~resume_text.is_str
    THEN Raised("parse_resume", "TypeError", FALSE)      \* resume_text[:200], before the try
    ELSE IF ~sanitize_input(resume_text).ok THEN parse_resume_error(FALSE)
    ELSE IF construct # "ok" THEN parse_resume_error(FALSE)
    ELSE IF run # "ok" THEN parse_resume_error(TRUE)
    ELSE Returned("parse_resume", "success", "data", "none", "none", TRUE)

analyze_job_posting(job_posting, construct, run) ==
    IF ~job_posting.is_str
    THEN Raised("analyze_job_posting", "TypeError", FALSE)   \* job_posting[:200]
    ELSE IF construct # "ok"
    THEN Raised("analyze_job_posting", "ConstructError", FALSE)  \* PydanticAgent(...) before the try
    ELSE IF run = "validation_error"
    THEN Returned("analyze_job_posting", "validation_error", "null", "fixed",
                  "field_messages", TRUE)
    ELSE IF run = "model_error"
    THEN Returned("analyze_job_posting", "error", "null", "type_name", "raw_message", TRUE)
    ELSE Returned("analyze_job_posting", "success", "data", "none", "none", TRUE)

generate_compatibility_score(construct, run) ==
    IF construct # "ok"
    THEN Raised("generate_compatibility_score", "ConstructError", FALSE)
    ELSE IF run # "ok"
    THEN Returned("generate_compatibility_score", "error", "null", "raw_message", "none", TRUE)
    ELSE Returned("generate_compatibility_score", "success", "data", "none", "none", TRUE)

\* ============================================================ session state
\* The keys of session.state the orchestrator's callbacks write. A key that is
\* absent reads as its .get() default: interaction_count 0, the markers unset.
EmptyState ==
    [conversation_started |-> FALSE, interaction_count |-> 0,
     last_interaction_completed |-> FALSE, last_operation_status |-> "none"]

NoSession == [id |-> NoId, app_name |-> APP_NAME, user_id |-> "", state |-> EmptyState]

Session(app_name, user_id, id, state) ==
    [id |-> id, app_name |-> app_name, user_id |-> user_id, state |-> state]

orchestrator_before_callback_reset(state) ==
    [state EXCEPT !.conversation_started = TRUE, !.interaction_count = 1]

orchestrator_before_callback(state) ==
    LET s0 == IF ~state.conversation_started
              THEN [state EXCEPT !.conversation_started = TRUE, !.interaction_count = 0]
              ELSE state
    IN [s0 EXCEPT !.interaction_count = s0.interaction_count + 1]

orchestrator_after_callback(state) ==
    [state EXCEPT !.last_interaction_completed = TRUE,
                  !.last_operation_status = "completed"]

\* ===================================================== session service
\* FirestoreSessionService: one document per session, keyed by the session id
\* alone. `fault` says whether the store call fails with a transport error.

\* str.strip() on a session id: the padding goes, a blank id becomes empty.
strip(session_id) ==
    IF session_id \in PaddedIds THEN <<"caller", session_id[2]>>
    ELSE IF session_id = BlankId THEN NoId
    ELSE session_id

\* session_id.strip() if session_id and session_id.strip() else str(uuid.uuid4())
final_session_id(session_id, fresh) ==
    IF session_id = NoId \/ strip(session_id) = NoId THEN fresh ELSE strip(session_id)

create_session(docs, app_name, user_id, state, session_id, fresh, fault) ==
    LET session == Session(app_name, user_id, final_session_id(session_id, fresh), state)
    IN IF fault
       THEN [raised |-> TRUE, exception |-> "TransportError", session |-> NoSession,
             docs |-> docs]
       ELSE [raised |-> FALSE, exception |-> "none", session |-> session,
             docs |-> [docs EXCEPT ![session.id] = session]]

get_session_raise(docs, app_name, user_id, session_id, fault) ==
    IF fault THEN [raised |-> TRUE, session |-> NoSession]
    ELSE [raised |-> FALSE,
          session |-> IF session_id \in DOMAIN docs THEN docs[session_id] ELSE NoSession]

\* The document is looked up by session_id; app_name and user_id are not read.
\* Any exception is logged and None returned.
get_session(docs, app_name, user_id, session_id, fault) ==
    IF fault THEN [raised |-> FALSE, session |-> NoSession]
    ELSE [raised |-> FALSE,
          session |-> IF session_id \in DOMAIN docs THEN docs[session_id] ELSE NoSession]

update_session_dropped(docs, session, fault) ==
    [raised |-> fault, docs |-> docs]

\* collection.document(session.id).set(session.model_dump()): the whole document.
update_session(docs, session, fault) ==
    IF fault THEN [raised |-> TRUE, docs |-> docs]
    ELSE [raised |-> FALSE, docs |-> [docs EXCEPT ![session.id] = session]]

delete_session(docs, app_name, user_id, session_id, fault) ==
    IF fault THEN [raised |-> TRUE, docs |-> docs]
    ELSE [raised |-> FALSE,
          docs |-> IF session_id \in DOMAIN docs
                   THEN [docs EXCEPT ![session_id] = NoSession] ELSE docs]

\* where("user_id", "==", user_id).stream(): the user's sessions, each with its
\* state cleared. A failing query is logged and an empty list returned.
list_sessions(docs, app_name, user_id, fault) ==
    IF fault THEN [raised |-> FALSE, sessions |-> {}]
    ELSE [raised |-> FALSE,
          sessions |-> {[docs[id] EXCEPT !.state = EmptyState] :
                           id \in {i \in DOMAIN docs : docs[i].id # NoId
                                                       /\ docs[i].user_id = user_id}}]

Exists(docs, session_id) == session_id \in DOMAIN docs /\ docs[session_id].id # NoId

\* uuid4(): an id no document has; the model hands them out in order.
FreshId == <<"uuid", next_uuid + 1>>
CanGenerate == next_uuid < MaxSessions

\* The session ids a caller can present: none, one of its own invention, or a
\* uuid the service has already handed out.
Presentable == {NoId} \cup CallerIds \cup {id \in GenIds : id[2] <= next_uuid}

\* ==================================================================== Init
NoCall ==
    [op |-> "none", user_id |-> "", session_id |-> NoId, asked |-> NoId,
     supplied |-> FALSE, existed |-> FALSE, fault |-> FALSE, outcome |-> "none",
     returned |-> NoSession, given |-> EmptyState, listed |-> {}]

IdleTurn ==
    [pc |-> "idle", user_id |-> "", session_id |-> NoId,
     active_session_id |-> NoId, session |-> NoSession, created |-> FALSE,
     faults |-> {}, nevents |-> 0, final_response_text |-> "none",
     raised |-> FALSE, result |-> "none", http_status |-> 0]

Turns == 1..MaxTurns

Init ==
    /\ calls = <<>>
    /\ sessions = [id \in AllIds |-> NoSession]
    /\ next_uuid = 0
    /\ begun = [id \in AllIds |-> 0]
    /\ api = NoCall
    /\ turns = [t \in Turns |-> IdleTurn]
    /\ published = <<>>

\* ======================================================= extractor calls
\* A call is recorded as the extractor's result, with what the model run gave
\* if the call got that far; the two extractors of a text are recorded with
\* the text they were given.
ModelRun(r, run) == [model_run |-> IF r.model_called THEN run ELSE "none"] @@ r

CallParseResume(text, construct, run) ==
    /\ Len(calls) < MaxCalls
    /\ calls' = Append(calls, [input |-> text]
                                  @@ ModelRun(parse_resume(text, construct, run), run))
    /\ UNCHANGED <<published, sessions, next_uuid, begun, api, turns>>

CallAnalyzeJobPosting(text, construct, run) ==
    /\ Len(calls) < MaxCalls
    /\ calls' = Append(calls, [input |-> text]
                                  @@ ModelRun(analyze_job_posting(text, construct, run), run))
    /\ UNCHANGED <<published, sessions, next_uuid, begun, api, turns>>

CallGenerateCompatibilityScore(construct, run) ==
    /\ Len(calls) < MaxCalls
    /\ calls' = Append(calls, ModelRun(generate_compatibility_score(construct, run), run))
    /\ UNCHANGED <<published, sessions, next_uuid, begun, api, turns>>

NextExt ==
    \E text \in Inputs, construct \in ConstructOutcomes, run \in RunOutcomes :
        \/ CallParseResume(text, construct, run)
        \/ CallAnalyzeJobPosting(text, construct, run)
        \/ CallGenerateCompatibilityScore(construct, run)

SpecExt == Init /\ [][NextExt]_vars

\* ================================================ session service calls
\* The states a caller hands to create_session.
GivenStates == {EmptyState, orchestrator_before_callback(EmptyState)}

ApiCreateSession(user_id, state, session_id, fault) ==
    /\ (session_id \in {NoId, BlankId}) => CanGenerate
    /\ LET r == create_session(sessions, APP_NAME, user_id, state, session_id, FreshId, fault)
           supplied == session_id \notin {NoId, BlankId}
       IN /\ sessions' = r.docs
          /\ next_uuid' = IF supplied THEN next_uuid ELSE next_uuid + 1
          /\ api' = [op |-> "create_session", user_id |-> user_id,
                     session_id |-> final_session_id(session_id, FreshId),
                     asked |-> session_id, supplied |-> supplied, fault |-> fault,
                     existed |-> supplied /\ Exists(sessions, strip(session_id)),
                     outcome |-> IF r.raised THEN r.exception ELSE "ok",
                     returned |-> r.session, given |-> state, listed |-> {}]
    /\ UNCHANGED <<published, calls, begun, turns>>

ApiGetSession(user_id, session_id, fault) ==
    /\ LET r == get_session(sessions, APP_NAME, user_id, session_id, fault)
       IN api' = [op |-> "get_session", user_id |-> user_id, session_id |-> session_id,
                  asked |-> session_id, supplied |-> TRUE, fault |-> fault,
                  existed |-> Exists(sessions, session_id),
                  outcome |-> IF r.raised THEN "TransportError" ELSE "ok",
                  returned |-> r.session, given |-> EmptyState, listed |-> {}]
    /\ UNCHANGED <<published, calls, sessions, next_uuid, begun, turns>>

ApiDeleteSession(user_id, session_id, fault) ==
    /\ LET r == delete_session(sessions, APP_NAME, user_id, session_id, fault)
       IN /\ sessions' = r.docs
          /\ api' = [op |-> "delete_session", user_id |-> user_id,
                     session_id |-> session_id, asked |-> session_id,
                     supplied |-> TRUE, fault |-> fault,
                     existed |-> Exists(sessions, session_id),
                     outcome |-> IF r.raised THEN "TransportError" ELSE "ok",
                     returned |-> NoSession, given |-> EmptyState, listed |-> {}]
    /\ UNCHANGED <<published, calls, next_uuid, begun, turns>>

\* update_session(session) for a session read earlier, with its state changed.
ApiUpdateSession(session_id, state, fault) ==
    /\ Exists(sessions, session_id)
    /\ LET session == [sessions[session_id] EXCEPT !.state = state]
           r == update_session(sessions, session, fault)
       IN /\ sessions' = r.docs
          /\ api' = [NoCall EXCEPT !.op = "update_session", !.user_id = session.user_id,
                                   !.session_id = session_id, !.asked = session_id,
                                   !.supplied = TRUE, !.existed = TRUE, !.fault = fault,
                                   !.outcome = IF r.raised THEN "TransportError" ELSE "ok",
                                   !.given = state]
    /\ UNCHANGED <<published, calls, next_uuid, begun, turns>>

ApiListSessions(user_id, fault) ==
    /\ LET r == list_sessions(sessions, APP_NAME, user_id, fault)
       IN api' = [NoCall EXCEPT !.op = "list_sessions", !.user_id = user_id,
                                !.fault = fault, !.outcome = "ok",
                                !.existed = list_sessions(sessions, APP_NAME, user_id,
                                                          FALSE).sessions # {},
                                !.listed = r.sessions]
    /\ UNCHANGED <<published, calls, sessions, next_uuid, begun, turns>>

NextStore ==
    \E user_id \in Users, fault \in BOOLEAN :
        \/ \E state \in GivenStates, session_id \in Presentable \cup {BlankId} \cup PaddedIds :
               ApiCreateSession(user_id, state, session_id, fault)
        \/ \E session_id \in AllIds \cup PaddedIds : ApiGetSession(user_id, session_id, fault)
        \/ \E session_id \in AllIds : ApiDeleteSession(user_id, session_id, fault)
        \/ \E session_id \in AllIds, state \in GivenStates :
               ApiUpdateSession(session_id, state, fault)
        \/ ApiListSessions(user_id, fault)

SpecStore == Init /\ [][NextStore]_vars

\* ============================================================ retry policy
\* utils/retry.py. The wrapped function fails its first `failures` invocations
\* and succeeds from then on. The loop of async_wrapper / sync_wrapper:
\* for attempt in range(max_retries + 1), return on success, re-raise when
\* attempt == max_retries, otherwise sleep and go round again.
RECURSIVE backoff_loop(_, _, _)
backoff_loop(max_retries, failures, attempt) ==
    IF attempt >= failures THEN [raised |-> FALSE, attempts |-> attempt + 1]
    ELSE IF attempt = max_retries THEN [raised |-> TRUE, attempts |-> attempt + 1]
    ELSE backoff_loop(max_retries, failures, attempt + 1)

exponential_backoff_once_more(max_retries, failures) ==
    backoff_loop(max_retries + 1, failures, 0)

exponential_backoff(max_retries, failures) ==
    backoff_loop(max_retries, failures, 0)

firestore_retry(failures) == exponential_backoff(FIRESTORE_MAX_RETRIES, failures)

\* tools/firestore_query.py query_firestore, decorated with @firestore_retry.
\* Its body raises ValueError for an empty collection name or an unsupported
\* filter operator, on every invocation; otherwise it raises while Firestore
\* fails. The decorator retries on every Exception and sleeps before each
\* further attempt.
query_firestore_invalid(collection, operator) ==
    \/ collection = ""
    \/ operator \notin {"array-contains", "array-contains-any",
                        "<", "<=", "==", "!=", ">=", ">"}

query_firestore(collection, operator, failures) ==
    LET invalid == query_firestore_invalid(collection, operator)
        r == firestore_retry(IF invalid THEN FIRESTORE_MAX_RETRIES + 1 ELSE failures)
    IN [raised |-> r.raised, attempts |-> r.attempts, sleeps |-> r.attempts - 1,
        exception |-> IF ~r.raised THEN "none"
                      ELSE IF invalid THEN "ValueError" ELSE "Exception"]

\* ============================================================== dispatcher
\* What run_async can return: the agent's text, the two fixed fallbacks, or the
\* error string of its except branch.
AgentText == "agent_text"
DefaultResponse == "Agent did not produce a final response."
EmptyResponse == "Agent returned empty content."
ErrorResponse == "An error occurred: <exception>"
ResponseStrings == {AgentText, DefaultResponse, EmptyResponse, ErrorResponse}

\* The events the runner yields, by what run_async's loop reads of them:
\* is_final_response(), content.parts[0].text and author.
Authors == {"resume_parser_agent", "job_posting_agent", "matcher_agent", "orchestrator_agent"}
EmittingAuthors == {"resume_parser_agent", "job_posting_agent", "matcher_agent"}
Event(author, final, content) == [author |-> author, final |-> final, content |-> content]
Events ==
    {Event("orchestrator_agent", FALSE, "text"), Event("orchestrator_agent", TRUE, "no_parts"),
     Event("resume_parser_agent", TRUE, "empty_text")}
    \cup {Event(a, TRUE, "text") : a \in Authors}

\* tools/pubsub.py emit_event: one publish, awaited; a failed publish raises.
emit_event(publish_fails) ==
    [raised |-> publish_fails, attempts |-> 1]

\* The event is one run_async's loop acts on: a final response with content.
Handled(event) == event.final /\ event.content # "no_parts"

\* The event is one the loop publishes a domain event for.
Emits(event) == Handled(event) /\ event.author \in EmittingAuthors

\* final_response_text after the loop's body for the event.
response_text(event, text) ==
    IF ~Handled(event) THEN text
    ELSE IF event.content = "text" THEN AgentText ELSE EmptyResponse

run_async_except_reraise(turn, fault) ==
    [turn EXCEPT !.pc = "returned", !.faults = @ \cup {fault}, !.raised = TRUE,
                 !.session = NoSession, !.nevents = 0]

\* run_async's `except Exception`: the error is logged and a string returned.
run_async_except(turn, fault) ==
    [turn EXCEPT !.pc = "returned", !.faults = @ \cup {fault},
                 !.result = ErrorResponse, !.session = NoSession, !.nevents = 0]

\* `return final_response_text`, once the runner's events are exhausted.
run_async_return(turn) ==
    [turn EXCEPT !.pc = "returned", !.result = turn.final_response_text,
                 !.session = NoSession, !.nevents = 0]

Running(t) == turns[t].pc \notin {"idle", "done"}

\* run_async(user_id, query, session_id) up to the first store call of
\* get_or_create_session_for_user: with a session id given, the session is
\* looked up and its id returned when found; otherwise one is to be created.
Start(t, user_id, session_id, fault) ==
    /\ turns[t].pc = "idle"
    /\ fault => session_id # NoId
    /\ LET turn == [IdleTurn EXCEPT !.user_id = user_id, !.session_id = session_id]
           r == get_session(sessions, APP_NAME, user_id, session_id, fault)
       IN turns' = [turns EXCEPT ![t] =
             IF session_id = NoId THEN [turn EXCEPT !.pc = "create"]
             ELSE IF r.raised THEN run_async_except(turn, "read")
             ELSE IF r.session.id # NoId
             THEN [turn EXCEPT !.pc = "run", !.active_session_id = r.session.id]
             ELSE [turn EXCEPT !.pc = "create",
                               !.faults = IF fault THEN {"read"} ELSE {}]]
    /\ UNCHANGED <<published, calls, sessions, next_uuid, begun, api>>

\* create_session_for_user: a session with state {} and no session id given.
CreateSessionForUser(t, fault) ==
    /\ turns[t].pc = "create"
    /\ CanGenerate
    /\ LET turn == turns[t]
           r == create_session(sessions, APP_NAME, turn.user_id, EmptyState, NoId,
                               FreshId, fault)
       IN /\ next_uuid' = next_uuid + 1
          /\ sessions' = r.docs
          /\ turns' = [turns EXCEPT ![t] =
                IF r.raised THEN run_async_except(turn, "create")
                ELSE [turn EXCEPT !.pc = "run", !.active_session_id = r.session.id,
                                  !.created = TRUE]]
    /\ UNCHANGED <<published, calls, begun, api>>

\* self.runner.run_async(user_id, session_id=active_session_id, ...): the runner
\* fetches the session it is to run in; without one it raises.
RunnerLoad(t, fault) ==
    /\ turns[t].pc = "run"
    /\ LET turn == turns[t]
           r == get_session(sessions, APP_NAME, turn.user_id, turn.active_session_id, fault)
       IN turns' = [turns EXCEPT ![t] =
             IF r.raised \/ r.session.id = NoId THEN run_async_except(turn, "load")
             ELSE [turn EXCEPT !.pc = "before", !.session = r.session]]
    /\ UNCHANGED <<published, calls, sessions, next_uuid, begun, api>>

\* The orchestrator's before-callback runs on the loaded state, and the
\* session is written back.
BeforeCallback(t, fault) ==
    /\ turns[t].pc = "before"
    /\ LET turn == turns[t]
           session == [turn.session EXCEPT !.state = orchestrator_before_callback(@)]
           w == update_session(sessions, session, fault)
       IN /\ sessions' = w.docs
          /\ begun' = IF w.raised THEN begun
                      ELSE [begun EXCEPT ![session.id] = @ + 1]
          /\ turns' = [turns EXCEPT ![t] =
                IF w.raised THEN run_async_except(turn, "persist")
                ELSE [turn EXCEPT !.pc = "agent", !.session = session,
                                  !.final_response_text = DefaultResponse]]
    /\ UNCHANGED <<published, calls, next_uuid, api>>

\* The runner raises while the agents run (the model call fails).
AgentFails(t) ==
    /\ turns[t].pc = "agent"
    /\ turns' = [turns EXCEPT ![t] = run_async_except(turns[t], "agent")]
    /\ UNCHANGED <<published, calls, sessions, next_uuid, begun, api>>

\* The runner yields one event, and the body of run_async's loop runs for it:
\* the text of a final event with content replaces final_response_text, and
\* an event of one of the three agents is published. What the publish puts on
\* the topic is stated where the action is used.
AgentEvent(t, event, publish_fails) ==
    /\ turns[t].pc = "agent"
    /\ turns[t].nevents < MaxEvents
    /\ publish_fails => Emits(event)
    /\ LET turn == turns[t]
           seen == [turn EXCEPT !.nevents = @ + 1,
                                !.final_response_text = response_text(event, @)]
       IN turns' = [turns EXCEPT ![t] =
             IF Emits(event) /\ emit_event(publish_fails).raised
             THEN run_async_except(seen, "emit") ELSE seen]
    /\ UNCHANGED <<calls, sessions, next_uuid, begun, api>>

\* The agents are done: the orchestrator's after-callback runs, the session is
\* written back, the runner's events end and run_async returns
\* final_response_text.
AfterCallback(t, fault) ==
    /\ turns[t].pc = "agent"
    /\ LET turn == turns[t]
           session == [turn.session EXCEPT !.state = orchestrator_after_callback(@)]
           w == update_session(sessions, session, fault)
       IN /\ sessions' = w.docs
          /\ turns' = [turns EXCEPT ![t] =
                IF w.raised THEN run_async_except(turn, "persist")
                ELSE run_async_return(turn)]
    /\ UNCHANGED <<published, calls, next_uuid, begun, api>>

\* What is left of a call that is over: who called, with which session id,
\* and the session the turn ran in.
Done(turn) ==
    [IdleTurn EXCEPT !.pc = "done", !.user_id = turn.user_id,
                     !.session_id = turn.session_id,
                     !.active_session_id = turn.active_session_id,
                     !.created = turn.created]

\* run_async was called directly: its caller has the returned string.
ReturnToCaller(t) ==
    /\ turns[t].pc = "returned"
    /\ turns' = [turns EXCEPT ![t] = Done(turns[t])]
    /\ UNCHANGED <<published, calls, sessions, next_uuid, begun, api>>

\* run_async was called by orchestrator_endpoint: it publishes TestEvent1 and
\* answers 200 with the agent's response; any exception becomes a 500.
EndpointRespond(t, publish_fails) ==
    /\ turns[t].pc = "returned"
    /\ LET e == emit_event(publish_fails)
       IN turns' = [turns EXCEPT ![t].pc = "responded",
                       ![t].faults = IF e.raised THEN @ \cup {"endpoint_emit"} ELSE @,
                       ![t].http_status = IF e.raised THEN 500 ELSE 200]
    /\ UNCHANGED <<calls, sessions, next_uuid, begun, api>>

\* The HTTP response has been sent.
EndpointDone(t) ==
    /\ turns[t].pc = "responded"
    /\ turns' = [turns EXCEPT ![t] = Done(turns[t])]
    /\ UNCHANGED <<published, calls, sessions, next_uuid, begun, api>>

\* Every step of a turn after its start; the topic is not followed here.
Continue(t) ==
    \/ \E fault \in BOOLEAN : CreateSessionForUser(t, fault)
    \/ \E fault \in BOOLEAN : RunnerLoad(t, fault)
    \/ \E fault \in BOOLEAN : BeforeCallback(t, fault)
    \/ AgentFails(t)
    \/ \E event \in Events, publish_fails \in BOOLEAN :
           AgentEvent(t, event, publish_fails) /\ UNCHANGED published
    \/ \E fault \in BOOLEAN : AfterCallback(t, fault)
    \/ ReturnToCaller(t)
    \/ \E publish_fails \in BOOLEAN :
           EndpointRespond(t, publish_fails) /\ UNCHANGED published
    \/ EndpointDone(t)

Calls == Users \X Presentable \X BOOLEAN

\* Turns run concurrently: a turn may start while others are under way.
StartAny(t) == \E c \in Calls : Start(t, c[1], c[2], c[3])

Next == \E t \in Turns : StartAny(t) \/ Continue(t)

Spec == Init /\ [][Next]_vars

\* One turn at a time: a turn starts only when no other turn is under way.
StartNext(t) ==
    /\ \A o \in Turns \ {t} : ~Running(o)
    /\ \E c \in Calls : Start(t, c[1], c[2], c[3])

NextSeq == \E t \in Turns : StartNext(t) \/ Continue(t)

SpecSeq == Init /\ [][NextSeq]_vars

\* ================================================== the topic, its consumer
DomainEvents == {"ParseResumeEvent", "ParseJobPostingEvent", "CompatibilityScoreEvent"}

\* The name run_async's `match event.author` publishes under.
event_name_for(author) ==
    CASE author = "resume_parser_agent" -> "ParseResumeEvent"
      [] author = "job_posting_agent" -> "ParseJobPostingEvent"
      [] author = "matcher_agent" -> "CompatibilityScoreEvent"

\* emit_event's message: data is json.dumps(payload).encode(), the name travels
\* as the attribute `event`. The consumer's b64decode / decode / json.loads
\* gives the payload's dict back, so `data` is kept as that dict.
pubsub_message(name, payload) ==
    [data |-> payload,
     attributes |-> [event |-> name, content_type |-> "application/json"]]

\* The payload run_async hands to emit_event for an agent's final event.
run_async_payload(turn) ==
    [response |-> "parsed", user_id |-> turn.user_id,
     session_id |-> turn.active_session_id]

\* firestore_saver/main.py: the Cloud Function triggered by a message.
\* `write_fails`: db.collection(...).add(...) raises.
save_data_to_firestore(message, write_fails) ==
    LET message_data == message.data
        has_event_name == /\ "event_name" \in DOMAIN message_data
                          /\ message_data.event_name # ""
        has_payload == /\ "payload" \in DOMAIN message_data
                       /\ DOMAIN message_data.payload # {}
        nothing == [raised |-> FALSE, added |-> 0, collection |-> "none"]
        add(collection) ==
            IF write_fails THEN [raised |-> TRUE, added |-> 0, collection |-> collection]
            ELSE [raised |-> FALSE, added |-> 1, collection |-> collection]
    IN IF ~has_event_name \/ ~has_payload THEN nothing
       ELSE IF message_data.event_name = "candidate_submitted" THEN add("candidates")
       ELSE IF message_data.event_name = "job_description_submitted"
       THEN add("job_postings")
       ELSE nothing

\* A message on the topic: who published it, in which turn, how often it has
\* been delivered, whether a delivery was acknowledged (the function
\* returned), and the documents written for it.
OnTopic(producer, session_id, message) ==
    [producer |-> producer, session_id |-> session_id, message |-> message,
     deliveries |-> 0, acked |-> FALSE, documents |-> 0]

\* The loop body of run_async, with what its emit_event puts on the topic.
AgentEventPublished(t, event, publish_fails) ==
    /\ AgentEvent(t, event, publish_fails)
    /\ published' =
          IF Emits(event) /\ ~emit_event(publish_fails).raised
          THEN Append(published,
                      OnTopic("run_async", turns[t].active_session_id,
                              pubsub_message(event_name_for(event.author),
                                             run_async_payload(turns[t]))))
          ELSE published

\* orchestrator_endpoint's emit_event(name="TestEvent1", payload={"response": ...}).
EndpointRespondPublished(t, publish_fails) ==
    /\ EndpointRespond(t, publish_fails)
    /\ published' =
          IF ~emit_event(publish_fails).raised
          THEN Append(published,
                      OnTopic("orchestrator_endpoint", turns[t].active_session_id,
                              pubsub_message("TestEvent1",
                                             [response |-> turns[t].result])))
          ELSE published

\* The bodies a client posts to /publish-event: the envelopes the consumer
\* reads, and an envelope around a domain event.
Envelope(event_name) ==
    [event_name |-> event_name, payload |-> [user_id |-> "u1", session_id |-> "s"]]
EventRequests ==
    {[event_name |-> n, payload |-> Envelope(n)] :
        n \in {"candidate_submitted", "job_description_submitted", "ParseResumeEvent"}}

\* POST /publish-event: emit_event(request.event_name, request.payload).
PublishEvent(request, publish_fails) ==
    /\ Len(published) < MaxPublished
    /\ published' =
          IF ~emit_event(publish_fails).raised
          THEN Append(published,
                      OnTopic("publish_event", NoId,
                              pubsub_message(request.event_name, request.payload)))
          ELSE published
    /\ UNCHANGED <<calls, sessions, next_uuid, begun, api, turns>>

\* The message has been consumed, or given up on.
Settled(entry) == entry.acked \/ entry.deliveries = MaxDeliveries

\* Pub/Sub hands message i to the function; a message whose delivery raised is
\* delivered again. Messages are handed over in the order of their publication.
Deliver(i, write_fails) ==
    /\ i \in 1..Len(published)
    /\ ~Settled(published[i])
    /\ \A j \in 1..(i - 1) : Settled(published[j])
    /\ LET r == save_data_to_firestore(published[i].message, write_fails)
       IN published' = [published EXCEPT ![i].deliveries = @ + 1,
                                         ![i].acked = ~r.raised,
                                         ![i].documents = @ + r.added]
    /\ UNCHANGED <<calls, sessions, next_uuid, begun, api, turns>>

\* One turn, with the topic followed.
BusTurn == 1

ContinuePublished(t) ==
    \/ \E fault \in BOOLEAN : CreateSessionForUser(t, fault)
    \/ \E fault \in BOOLEAN : RunnerLoad(t, fault)
    \/ \E fault \in BOOLEAN : BeforeCallback(t, fault)
    \/ AgentFails(t)
    \/ \E event \in Events, publish_fails \in BOOLEAN :
           AgentEventPublished(t, event, publish_fails)
    \/ \E fault \in BOOLEAN : AfterCallback(t, fault)
    \/ ReturnToCaller(t)
    \/ \E publish_fails \in BOOLEAN : EndpointRespondPublished(t, publish_fails)
    \/ EndpointDone(t)

NextBus ==
    \/ StartAny(BusTurn)
    \/ ContinuePublished(BusTurn)
    \/ \E request \in EventRequests, publish_fails \in BOOLEAN :
           PublishEvent(request, publish_fails)
    \/ \E i \in 1..(MaxEvents + MaxPublished + 1), write_fails \in BOOLEAN :
           Deliver(i, write_fails)

SpecBus == Init /\ [][NextBus]_vars

\* ========================================================= retried calls
\* A call of a retried function: how often the operation underneath fails
\* before it succeeds, and what the caller saw.
Attempted(op, max_retries, failures, r) ==
    [op |-> op, max_retries |-> max_retries, failures |-> failures,
     attempts |-> r.attempts, raised |-> r.raised]

\* A function decorated with @exponential_backoff(max_retries=...) is called.
CallWithBackoff(max_retries, failures) ==
    /\ Len(calls) < MaxCalls
    /\ calls' = Append(calls, Attempted("exponential_backoff", max_retries, failures,
                                        exponential_backoff(max_retries, failures)))
    /\ UNCHANGED <<published, sessions, next_uuid, begun, api, turns>>

\* A function decorated with @firestore_retry is called.
CallWithFirestoreRetry(failures) ==
    /\ Len(calls) < MaxCalls
    /\ calls' = Append(calls, Attempted("firestore_retry", FIRESTORE_MAX_RETRIES, failures,
                                        firestore_retry(failures)))
    /\ UNCHANGED <<published, sessions, next_uuid, begun, api, turns>>

\* emit_event(name, payload) is called; it is not decorated.
CallEmitEvent(failures) ==
    /\ Len(calls) < MaxCalls
    /\ calls' = Append(calls, Attempted("emit_event", 0, failures,
                                        emit_event(failures > 0)))
    /\ UNCHANGED <<published, sessions, next_uuid, begun, api, turns>>

\* query_firestore(collection, {field: {operator: operand}}) is called.
CallQueryFirestore(collection, operator, failures) ==
    /\ Len(calls) < MaxCalls
    /\ query_firestore_invalid(collection, operator) => failures = 0
    /\ LET r == query_firestore(collection, operator, failures)
       IN calls' = Append(calls,
                      [collection |-> collection, operator |-> operator,
                       sleeps |-> r.sleeps, exception |-> r.exception]
                      @@ Attempted("query_firestore", FIRESTORE_MAX_RETRIES, failures, r))
    /\ UNCHANGED <<published, sessions, next_uuid, begun, api, turns>>

NextRetry ==
    \E failures \in 0..MaxFailures :
        \/ \E max_retries \in 0..DEFAULT_MAX_RETRIES :
              CallWithBackoff(max_retries, failures)
        \/ CallWithFirestoreRetry(failures)
        \/ CallEmitEvent(failures)
        \/ \E collection \in {"", "candidates"}, operator \in {"==", "invalid-op"} :
              CallQueryFirestore(collection, operator, failures)

SpecRetry == Init /\ [][NextRetry]_vars

\* ======================================================== sanitizer calls
\* The texts of at most MaxPieces pieces, and a value that is no str.
SanitizerInputs ==
    {NonStr} \cup {Text(body) : body \in UNION {[1..n -> Pieces] : n \in 0..MaxPieces}}

\* sanitize_input(text) is called once: it raises ValueError or returns a str.
CallSanitizeInput(text) ==
    /\ calls = <<>>
    /\ LET r == sanitize_input(text)
       IN calls' = <<[op |-> "sanitize_input", input |-> text, raised |-> ~r.ok,
                      exception |-> r.error, output |-> r.output]>>
    /\ UNCHANGED <<published, sessions, next_uuid, begun, api, turns>>

NextSan == \E text \in SanitizerInputs : CallSanitizeInput(text)

SpecSan == Init /\ [][NextSan]_vars

\* ========================================================= JSON API
\* A dict the JSON functions return: its top-level keys and the values the
\* callers read.
JsonDict(keys, operation_status, data, message) ==
    [keys |-> keys, operation_status |-> operation_status, data |-> data,
     message |-> message]

\* The top-level keys of the dict an extractor returns.
keys_of(r) ==
    IF r.extractor = "parse_resume"
    THEN {"resume_data", "session_info", "operation_status"}
    ELSE {"job_posting_data", "session_info", "operation_status"}
            \cup (IF r.operation_status = "success" THEN {} ELSE {"error_details"})

\* The except branch of the JSON functions.
json_error == JsonDict({"error", "error_type", "message"}, "none", "none", "raw_message")

parse_resume_json(resume_text, construct, run) ==
    LET result == parse_resume(resume_text, construct, run)
    IN IF result.raised THEN json_error
       ELSE JsonDict(keys_of(result), result.operation_status, result.data, "none")

analyze_job_posting_json(job_posting_text, construct, run) ==
    LET result == analyze_job_posting(job_posting_text, construct, run)
    IN IF result.raised THEN json_error
       ELSE JsonDict(keys_of(result), result.operation_status, result.data, "none")

\* sum(1 for keyword in keywords if keyword in text_lower)
keyword_score(keywords, body) ==
    Cardinality({keyword \in keywords :
                    \E i \in 1..Len(body) : lower(body[i]) = keyword})

Processed(keys, document_type, extractor, data, success, job_score, resume_score) ==
    [keys |-> keys, document_type |-> document_type, extractor |-> extractor,
     data |-> data, success |-> success,
     job_score |-> job_score, resume_score |-> resume_score]

process_document_failed(keys) ==
    Processed(keys, "none", "none", JsonDict({}, "none", "none", "none"), FALSE, 0, 0)

detected_type_on_tie_job(job_score, resume_score) ==
    IF job_score >= resume_score THEN "job_posting" ELSE "resume"

detected_type(job_score, resume_score) ==
    IF job_score > resume_score THEN "job_posting" ELSE "resume"

process_document_json(document_text, document_type, construct, run) ==
    LET s == sanitize_input(document_text)
        sanitized_text == Text(s.output)
        job_score == keyword_score(job_keywords, s.output)
        resume_score == keyword_score(resume_keywords, s.output)
        type == IF document_type = "auto" THEN detected_type(job_score, resume_score)
                ELSE document_type
        result == IF type = "job_posting"
                  THEN analyze_job_posting_json(sanitized_text, construct, run)
                  ELSE parse_resume_json(sanitized_text, construct, run)
        extractor == IF type = "job_posting" THEN "analyze_job_posting"
                     ELSE "parse_resume"
    IN IF ~s.ok THEN process_document_failed({"error", "error_type", "message"})
       ELSE IF document_type \in {"resume", "job_posting"}
       THEN Processed({"document_type", "data", "success"}, type, extractor, result,
                      "error" \notin result.keys, 0, 0)
       ELSE IF document_type = "auto"
       THEN Processed({"document_type", "detection_confidence", "data", "success"},
                      type, extractor, result, "error" \notin result.keys,
                      job_score, resume_score)
       ELSE process_document_failed({"error", "valid_types"})

\* The request models: the text is a str of at most 50000 characters.
request_valid(text) == text.is_str /\ text.len <= MAX_INPUT_SIZE

Response(http_status, success) == [http_status |-> http_status, success |-> success]

\* POST /process-document of the standalone server: what it answers, given
\* the request text and what process_document_json returned for the request.
process_document_endpoint(document_text, result) ==
    IF ~request_valid(document_text) THEN Response(422, FALSE)
    ELSE IF "error" \in result.keys THEN Response(500, FALSE)
    ELSE Response(200, result.success)

\* POST /parse-resume: what it answers, given the request text and what
\* parse_resume_json returned for it.
parse_resume_endpoint(resume_text, result) ==
    IF ~request_valid(resume_text) THEN Response(422, FALSE)
    ELSE IF "error" \in result.keys THEN Response(500, FALSE)
    ELSE Response(200, TRUE)

Documents ==
    LET pieces == {"requirements", "salary", "education", "SKILLS", Blank, RunMax}
    IN {NonStr} \cup {Text(body) : body \in UNION {[1..n -> pieces] : n \in 0..MaxDoc}}

\* A call is recorded with its arguments, the outcomes of the model layer,
\* what the JSON function returned and what the endpoint answered.
DocCall(op, document_text, document_type, construct, run, result) ==
    [op |-> op, document_text |-> document_text, asked |-> document_type,
     construct |-> construct, run |-> run, result |-> result,
     response |-> IF op = "process_document_endpoint"
                  THEN process_document_endpoint(document_text, result)
                  ELSE IF op = "parse_resume_endpoint"
                  THEN parse_resume_endpoint(document_text, result)
                  ELSE Response(0, FALSE)]

CallProcessDocumentJson(document_text, document_type, construct, run) ==
    /\ calls = <<>>
    /\ calls' = <<DocCall("process_document_json", document_text, document_type,
                          construct, run,
                          process_document_json(document_text, document_type,
                                                construct, run))>>
    /\ UNCHANGED <<published, sessions, next_uuid, begun, api, turns>>

\* The same document is processed once more; the model run may end otherwise.
CallProcessDocumentJsonAgain(construct, run) ==
    /\ Len(calls) = 1
    /\ calls[1].op = "process_document_json"
    /\ calls' = Append(calls,
                   DocCall("process_document_json", calls[1].document_text,
                           calls[1].asked, construct, run,
                           process_document_json(calls[1].document_text,
                                                 calls[1].asked, construct, run)))
    /\ UNCHANGED <<published, sessions, next_uuid, begun, api, turns>>

CallProcessDocumentEndpoint(document_text, document_type, construct, run) ==
    /\ calls = <<>>
    /\ calls' = <<DocCall("process_document_endpoint", document_text, document_type,
                          construct, run,
                          process_document_json(document_text, document_type,
                                                construct, run))>>
    /\ UNCHANGED <<published, sessions, next_uuid, begun, api, turns>>

CallParseResumeEndpoint(resume_text, construct, run) ==
    /\ calls = <<>>
    /\ calls' = <<DocCall("parse_resume_endpoint", resume_text, "resume",
                          construct, run,
                          parse_resume_json(resume_text, construct, run))>>
    /\ UNCHANGED <<published, sessions, next_uuid, begun, api, turns>>

NextDoc ==
    \E construct \in ConstructOutcomes, run \in RunOutcomes :
        \/ \E document_text \in Documents,
                 document_type \in {"resume", "job_posting", "auto", "cv"} :
              \/ CallProcessDocumentJson(document_text, document_type, construct, run)
              \/ CallProcessDocumentEndpoint(document_text, document_type, construct, run)
        \/ \E resume_text \in Documents : CallParseResumeEndpoint(resume_text, construct, run)
        \/ CallProcessDocumentJsonAgain(construct, run)

SpecDoc == Init /\ [][NextDoc]_vars

\* ====================================================== recovery parser
\* A text blob is a sequence of tokens: the four bracket characters, the
\* colon, a code fence, a word of commentary and two string literals (the
\* double quote is written as a single quote here, the fence as tildes).
Literals == {"'name'", "'Ada'"}
Openers == {"{", "["}
Closers == {"}", "]"}

\* The str inside a literal's quotes.
unquote(token) == IF token = "'name'" THEN "name" ELSE "Ada"
quote(str) == IF str = "name" THEN "'name'" ELSE "'Ada'"

\* The values of a payload: a str, a list of strs, a dict of one key.
Str(str) == [type |-> "str", str |-> str]
List(items) == [type |-> "list", items |-> items]
Dict(key, value) == [type |-> "dict", key |-> key, value |-> value]
None == [type |-> "None"]
Other == [type |-> "other"]

\* The payloads published: a dict whose value is a str or a list.
Payloads ==
    {Dict("name", v) : v \in {Str("Ada"), List(<<>>), List(<<Str("Ada")>>)}}

\* json.dumps(value), as tokens.
json_dumps(value) ==
    LET inner(v) == IF v.type = "str" THEN <<quote(v.str)>>
                    ELSE <<"[">> \o [i \in 1..Len(v.items) |-> quote(v.items[i].str)]
                               \o <<"]">>
    IN IF value.type = "dict"
       THEN <<"{", quote(value.key), ":">> \o inner(value.value) \o <<"}">>
       ELSE inner(value)

\* The strict JSON grammar on tokens: the value at the head of tokens and
\* how many tokens it takes, or no value.
NoValue == [ok |-> FALSE, value |-> None, taken |-> 0]

scan_inner(tokens) ==
    IF tokens = <<>> THEN NoValue
    ELSE IF Head(tokens) \in Literals
    THEN [ok |-> TRUE, value |-> Str(unquote(Head(tokens))), taken |-> 1]
    ELSE IF Head(tokens) # "[" THEN NoValue
    ELSE IF Len(tokens) >= 2 /\ tokens[2] = "]"
    THEN [ok |-> TRUE, value |-> List(<<>>), taken |-> 2]
    ELSE IF Len(tokens) >= 3 /\ tokens[2] \in Literals /\ tokens[3] = "]"
    THEN [ok |-> TRUE, value |-> List(<<Str(unquote(tokens[2]))>>), taken |-> 3]
    ELSE NoValue

scan_value(tokens) ==
    IF tokens = <<>> \/ Head(tokens) # "{" THEN scan_inner(tokens)
    ELSE IF Len(tokens) >= 3 /\ tokens[2] \in Literals /\ tokens[3] = ":"
    THEN LET v == scan_inner(SubSeq(tokens, 4, Len(tokens)))
             close == 4 + v.taken
         IN IF v.ok /\ Len(tokens) >= close /\ tokens[close] = "}"
            THEN [ok |-> TRUE, value |-> Dict(unquote(tokens[2]), v.value),
                  taken |-> close]
            ELSE NoValue
    ELSE NoValue

\* json.loads(json.dumps(parsed_data)): the parsed object as plain dicts,
\* lists and strs.
json_loads_dumps(parsed_data) ==
    IF parsed_data.type = "other" THEN parsed_data
    ELSE scan_value(json_dumps(parsed_data)).value

\* What the dirtyjson library does with a text that is not one JSON value
\* from its first to its last character: it ignores what follows the value
\* or reads the deviation as some object, it fails with dirtyjson.Error, or
\* it fails with another exception.
dirtyjson_loads(potential_json, tolerance) ==
    LET v == scan_value(potential_json)
    IN IF v.ok /\ v.taken = Len(potential_json)
       THEN [outcome |-> "parsed", value |-> v.value]
       ELSE IF tolerance = "accepts"
       THEN [outcome |-> "parsed", value |-> IF v.ok THEN v.value ELSE Other]
       ELSE IF tolerance = "rejects"
       THEN [outcome |-> "dirtyjson.Error", value |-> None]
       ELSE [outcome |-> "Exception", value |-> None]

\* text_blob.index(c) for the first, text_blob.rindex(c) for the last
\* position of a character; positions count from 1, and 0 is "not found".
index(tokens, c) ==
    LET at == {i \in 1..Len(tokens) : tokens[i] = c}
    IN IF at = {} THEN 0 ELSE CHOOSE i \in at : \A j \in at : i <= j

rindex(tokens, c) ==
    LET at == {i \in 1..Len(tokens) : tokens[i] = c}
    IN IF at = {} THEN 0 ELSE CHOOSE i \in at : \A j \in at : i >= j

Parsed(raised, result) == [raised |-> raised, result |-> result]

parse_dirty_json_unguarded(text_blob, tolerance) ==
    IF ~text_blob.is_str THEN Parsed(FALSE, None)
    ELSE
    LET tokens == text_blob.tokens
        first_brace == index(tokens, "{")
        first_bracket == index(tokens, "[")
        start_index == IF first_brace # 0 /\ first_bracket # 0
                       THEN (IF first_brace <= first_bracket THEN first_brace
                             ELSE first_bracket)
                       ELSE IF first_brace # 0 THEN first_brace ELSE first_bracket
        last_brace == rindex(tokens, "}")
        last_bracket == rindex(tokens, "]")
        end_index == IF last_brace >= last_bracket THEN last_brace ELSE last_bracket
        r == dirtyjson_loads(SubSeq(tokens, start_index, end_index), tolerance)
    IN IF first_brace = 0 /\ first_bracket = 0 THEN Parsed(FALSE, None)
       ELSE IF end_index = 0 \/ end_index < start_index THEN Parsed(FALSE, None)
       ELSE IF r.outcome = "parsed" THEN Parsed(FALSE, json_loads_dumps(r.value))
       ELSE IF r.outcome = "dirtyjson.Error" THEN Parsed(FALSE, None)
       ELSE Parsed(TRUE, None)

parse_dirty_json(text_blob, tolerance) ==
    IF ~text_blob.is_str THEN Parsed(FALSE, None)
    ELSE
    LET tokens == text_blob.tokens
        first_brace == index(tokens, "{")
        first_bracket == index(tokens, "[")
        start_index == IF first_brace # 0 /\ first_bracket # 0
                       THEN (IF first_brace <= first_bracket THEN first_brace
                             ELSE first_bracket)
                       ELSE IF first_brace # 0 THEN first_brace ELSE first_bracket
        last_brace == rindex(tokens, "}")
        last_bracket == rindex(tokens, "]")
        end_index == IF last_brace >= last_bracket THEN last_brace ELSE last_bracket
        r == dirtyjson_loads(SubSeq(tokens, start_index, end_index), tolerance)
    IN IF first_brace = 0 /\ first_bracket = 0 THEN Parsed(FALSE, None)
       ELSE IF end_index = 0 \/ end_index < start_index THEN Parsed(FALSE, None)
       ELSE IF r.outcome = "parsed" THEN Parsed(FALSE, json_loads_dumps(r.value))
       ELSE Parsed(FALSE, None)

Blob(tokens) == [is_str |-> TRUE, tokens |-> tokens]
Blobs ==
    LET tokens_of_blobs == Openers \cup Closers \cup {":", "word", "'name'"}
    IN {[is_str |-> FALSE, tokens |-> <<>>]}
          \cup {Blob(tokens) :
                   tokens \in UNION {[1..n -> tokens_of_blobs] : n \in 0..MaxBlob}}

\* What stands before or after the JSON in a response: nothing, or one token.
Commentaries ==
    {<<>>} \cup {<<token>> : token \in Openers \cup Closers \cup {"word", "~~~"}}

ParseCall(text_blob, wrapped, tolerance) ==
    LET r == parse_dirty_json(text_blob, tolerance)
    IN [op |-> "parse_dirty_json", text_blob |-> text_blob, wrapped |-> wrapped,
        tolerance |-> tolerance, raised |-> r.raised, result |-> r.result]

\* parse_dirty_json(text_blob) is called on any value.
CallParseDirtyJson(text_blob, tolerance) ==
    /\ calls = <<>>
    /\ calls' = <<ParseCall(text_blob, None, tolerance)>>
    /\ UNCHANGED <<published, sessions, next_uuid, begun, api, turns>>

\* parse_dirty_json is called on a response text that holds the
\* serialization of a payload between two stretches of commentary.
CallParseResponse(payload, before, after, tolerance) ==
    /\ calls = <<>>
    /\ calls' = <<ParseCall(Blob(before \o json_dumps(payload) \o after),
                            payload, tolerance)>>
    /\ UNCHANGED <<published, sessions, next_uuid, begun, api, turns>>

NextJson ==
    \E tolerance \in {"accepts", "rejects", "crashes"} :
        \/ \E text_blob \in Blobs : CallParseDirtyJson(text_blob, tolerance)
        \/ \E payload \in Payloads, before \in Commentaries, after \in Commentaries :
              CallParseResponse(payload, before, after, tolerance)

SpecJson == Init /\ [][NextJson]_vars

\* ================================================================== claims
Returns == {i \in 1..Len(calls) : ~calls[i].raised}
Back(t) == turns[t].pc \in {"returned", "responded"}

\* C1: an extractor given a text never raises to its caller: whatever fails
\* while the model is constructed or invoked or its output validated, every
\* call of parse_resume, analyze_job_posting and generate_compatibility_score
\* returns a result.
C1_ExtractorNeverRaises ==
    \A i \in 1..Len(calls) :
        calls[i].raised => calls[i].exception = "TypeError"

\* C2: every result an extractor returns has a null domain-data field if and
\* only if its operation_status is not "success".
C2_DataNullIffNotSuccess ==
    \A i \in Returns :
        (calls[i].data = "null") <=> (calls[i].operation_status # "success")

C2_Witness ==
    \E i, j \in Returns :
        /\ calls[i].operation_status = "success" /\ calls[i].data = "data"
        /\ calls[j].extractor = "parse_resume"
        /\ calls[j].operation_status = "error" /\ calls[j].data = "null"

\* C3: when emit_event raises during a turn, run_async still returns the
\* response the agent had computed, and the /orchestrator endpoint still
\* answers 200 with it.
C3_EmitFailureKeepsResponse ==
    \A t \in Turns :
        /\ (Back(t) /\ turns[t].faults = {"emit"})
               => turns[t].result = turns[t].final_response_text
        /\ (turns[t].pc = "responded" /\ turns[t].faults = {"endpoint_emit"})
               => turns[t].http_status = 200

\* C4: whatever fails in a turn (session loading, running the agents, event
\* emission), run_async returns a string and raises nothing.
C4_DispatcherNeverRaises ==
    \A t \in Turns :
        Back(t) => ~turns[t].raised /\ turns[t].result \in ResponseStrings

C4_Witness ==
    \E t \in Turns :
        /\ turns[t].pc = "returned"
        /\ "emit" \in turns[t].faults
        /\ turns[t].result = ErrorResponse

C7_SessionReused ==
    \A t1, t2 \in Turns :
        ( /\ t1 # t2
          /\ turns[t1].pc = "done" /\ turns[t1].active_session_id # NoId
          /\ sessions[turns[t1].active_session_id].state.last_interaction_completed
          /\ turns[t2].pc = "returned" /\ turns[t2].faults = {}
          /\ turns[t2].user_id = turns[t1].user_id
          /\ turns[t2].session_id = turns[t1].session_id
          /\ turns[t2].session_id # NoId )
        => /\ turns[t2].active_session_id = turns[t1].active_session_id
           /\ ~turns[t2].created

\* C8: a turn never runs in a session of another user.
C8_SessionIsolation ==
    \A t \in Turns :
        turns[t].active_session_id # NoId
            => sessions[turns[t].active_session_id].user_id = turns[t].user_id

\* C9: when the read of the session fails with a transport error and nothing
\* else fails, the turn runs in a fresh session and run_async returns the
\* agent's response.
C9_ReadFailureDegrades ==
    \A t \in Turns :
        (Back(t) /\ turns[t].faults = {"read"})
            => /\ turns[t].created
               /\ turns[t].active_session_id # turns[t].session_id
               /\ turns[t].result = turns[t].final_response_text
               /\ turns[t].result # ErrorResponse

C9_Witness ==
    \E t \in Turns :
        /\ turns[t].pc = "returned"
        /\ turns[t].faults = {"read"}
        /\ Exists(sessions, turns[t].session_id)
        /\ turns[t].result = AgentText

\* C10: create_session with a caller-supplied session id that is already in
\* the store fails with AlreadyExists and leaves the stored session as it was.
C10_CreateCollisionFails ==
    (api.op = "create_session" /\ api.existed)
        => api.outcome = "AlreadyExists"

\* C11: get_session called right after a successful create_session, with the
\* same user_id and the session_id that was given to create_session, returns
\* a session whose state is the state given to create_session.
C11_GetAfterCreate ==
    [][(/\ api.op = "create_session" /\ api.outcome = "ok" /\ api.supplied
        /\ api'.op = "get_session" /\ ~api'.fault
        /\ api'.user_id = api.user_id /\ api'.session_id = api.asked)
       => (api'.returned.id # NoId /\ api'.returned.state = api.given)]_vars

\* C12: a store operation of the session service whose store call fails once
\* (the next attempt would succeed) is retried: create_session,
\* update_session and delete_session then succeed, get_session returns the
\* stored session and list_sessions the user's sessions.
C12_TransientFailureRetried ==
    (api.op # "none" /\ api.fault)
        => /\ api.outcome = "ok"
           /\ (api.op = "get_session" /\ api.existed) => api.returned.id # NoId
           /\ (api.op = "list_sessions" /\ api.existed) => api.listed # {}

\* C13: emit_event retries a failing publish: when the publish fails at first,
\* it is attempted again, and the caller gets an exception only when the
\* attempts of the retry policy are used up.
C13_EmitEventRetries ==
    \A i \in 1..Len(calls) :
        (calls[i].op = "emit_event" /\ calls[i].failures > 0)
            => /\ calls[i].attempts > 1
               /\ calls[i].raised => calls[i].failures >= calls[i].attempts

\* C14 as stated: a call through the retry policy with max_retries = 3 invokes
\* the operation at most 3 times.
C14_AtMostThreeAttempts ==
    \A i \in 1..Len(calls) :
        (calls[i].op \in {"exponential_backoff", "firestore_retry"}
         /\ calls[i].max_retries = 3)
            => calls[i].attempts <= 3

\* C14, amended: a call through the retry policy invokes the operation at most
\* max_retries + 1 times (4 with max_retries = 3): it returns at the first
\* success, and raises the last exception exactly when the operation failed
\* max_retries + 1 times, with no invocation after that.
C14_AtMostRetriesPlusOne ==
    \A i \in 1..Len(calls) :
        calls[i].op \in {"exponential_backoff", "firestore_retry"}
            => /\ calls[i].attempts <= calls[i].max_retries + 1
               /\ calls[i].raised <=> calls[i].failures > calls[i].max_retries
               /\ calls[i].raised => calls[i].attempts = calls[i].max_retries + 1
               /\ ~calls[i].raised => calls[i].attempts = calls[i].failures + 1

C14_Witness ==
    \E i \in 1..Len(calls) :
        /\ calls[i].op = "firestore_retry"
        /\ calls[i].failures > 4
        /\ calls[i].attempts = 4
        /\ calls[i].raised

\* C15: every domain event run_async has published and the consumer has
\* consumed has exactly one persisted document, and none has more than one.
C15_ConsumedExactlyOnce ==
    \A i \in 1..Len(published) :
        (published[i].producer = "run_async"
         /\ published[i].message.attributes.event \in DomainEvents)
            => /\ published[i].documents <= 1
               /\ published[i].acked => published[i].documents = 1

\* C16: in one turn run_async publishes at most one domain event per
\* producing agent, under the name that belongs to the agent.
C16_OneEventPerResult ==
    \A name \in DomainEvents :
        Cardinality({i \in 1..Len(published) :
                        /\ published[i].producer = "run_async"
                        /\ published[i].message.attributes.event = name}) <= 1

\* C17: an extractor of a text invokes the model only for a text the sanitizer
\* accepts: for a text sanitize_input rejects, no model call is made.
C17_NoModelCallOnRejectedInput ==
    \A i \in 1..Len(calls) :
        (calls[i].extractor \in {"parse_resume", "analyze_job_posting"}
         /\ ~sanitize_input(calls[i].input).ok)
            => ~calls[i].model_called

\* C18: sanitize_input raises exactly for a value that is no str, for the
\* empty text and for a text of more than MAX_INPUT_SIZE characters; every
\* other text, one of exactly MAX_INPUT_SIZE characters included, is accepted
\* and a str of no more characters than the input comes back.
C18_RejectsExactlyInvalid ==
    \A i \in 1..Len(calls) :
        calls[i].op = "sanitize_input" =>
            /\ calls[i].raised <=> \/ ~calls[i].input.is_str
                                   \/ calls[i].input.len = 0
                                   \/ calls[i].input.len > MAX_INPUT_SIZE
            /\ calls[i].raised => calls[i].exception = "ValueError"
            /\ ~calls[i].raised => /\ calls[i].output \in Seq(Pieces)
                                   /\ text_len(calls[i].output) <= calls[i].input.len

C18_Witness ==
    \E i \in 1..Len(calls) :
        /\ calls[i].op = "sanitize_input"
        /\ calls[i].input.len = MAX_INPUT_SIZE
        /\ ~calls[i].raised

\* C19: what sanitize_input returns for an accepted text holds no
\* <script ...>...</script> block, no "javascript:" in any letter case, no
\* on<word>= handler, and neither begins nor ends with a blank.
C19_OutputIsClean ==
    \A i \in 1..Len(calls) :
        (calls[i].op = "sanitize_input" /\ ~calls[i].raised) =>
            LET out == calls[i].output
                Rest(k) == SubSeq(out, k, Len(out))
            IN /\ \A k \in 1..Len(out) :
                    /\ script_match_end(Rest(k)) = 0
                    /\ javascript_match_end(Rest(k)) = 0
                    /\ handler_match_end(Rest(k)) = 0
               /\ out # <<>> => (out[1] # Blank /\ out[Len(out)] # Blank)

\* C20: for every extractor, a model output that violates a field constraint
\* of the target schema is rejected as a whole: the call returns
\* operation_status "validation_error" and no domain data.
C20_ValidationErrorStatus ==
    \A i \in 1..Len(calls) :
        calls[i].model_run = "validation_error" =>
            /\ ~calls[i].raised
            /\ calls[i].operation_status = "validation_error"
            /\ calls[i].data = "null"

\* C21: an extractor that returns a failure carries a schema-conforming
\* placeholder as its domain data, never a missing value.
C21_FailureCarriesPlaceholder ==
    \A i \in 1..Len(calls) :
        (~calls[i].raised /\ calls[i].operation_status # "success")
            => calls[i].data = "placeholder"

\* C22: parse_resume raises to its caller when parsing cannot be done:
\* ValueError for a text the sanitizer rejects (empty or too large), and an
\* exception when the model layer fails.
C22_ParseResumeRaises ==
    \A i \in 1..Len(calls) :
        calls[i].extractor = "parse_resume" =>
            /\ (calls[i].input.is_str /\ ~sanitize_input(calls[i].input).ok)
                   => (calls[i].raised /\ calls[i].exception = "ValueError")
            /\ calls[i].model_run = "model_error" => calls[i].raised

\* The slice parse_dirty_json hands to the lenient parser, if there is one.
C23_Slice(tokens) ==
    LET opens == {i \in 1..Len(tokens) : tokens[i] \in Openers}
        closes == {i \in 1..Len(tokens) : tokens[i] \in Closers}
        first == CHOOSE i \in opens : \A j \in opens : i <= j
        last == CHOOSE i \in closes : \A j \in closes : i >= j
    IN IF opens = {} \/ closes = {} THEN <<>>
       ELSE IF last < first THEN <<>>
       ELSE SubSeq(tokens, first, last)

\* C23: parse_dirty_json never raises; it returns None when the text has no
\* opening brace or bracket, when no closing one lies at or after the first
\* opening one, or when the lenient parse of the slice fails, and the parsed
\* object otherwise.
C23_NeverRaises ==
    \A i \in 1..Len(calls) :
        calls[i].op = "parse_dirty_json" =>
            LET slice == C23_Slice(calls[i].text_blob.tokens)
                parse == dirtyjson_loads(slice, calls[i].tolerance)
            IN /\ ~calls[i].raised
               /\ calls[i].text_blob.is_str =>
                    (calls[i].result = None
                        <=> (slice = <<>> \/ parse.outcome # "parsed"))
               /\ calls[i].result # None
                    => calls[i].result \in {parse.value, Other}

C23_Witness ==
    \E i \in 1..Len(calls) :
        /\ calls[i].op = "parse_dirty_json"
        /\ calls[i].tolerance = "crashes"
        /\ C23_Slice(calls[i].text_blob.tokens) # <<>>
        /\ dirtyjson_loads(C23_Slice(calls[i].text_blob.tokens), "crashes").outcome
               = "Exception"
        /\ calls[i].result = None

\* C24: parse_dirty_json of a text that holds the serialization of a payload
\* within commentary returns the payload, even for a lenient parser that
\* ignores whatever follows the first value.
C24_RoundTrip ==
    \A i \in 1..Len(calls) :
        (calls[i].op = "parse_dirty_json" /\ calls[i].wrapped # None
         /\ calls[i].tolerance = "accepts")
            => calls[i].result = calls[i].wrapped

\* C25: with document_type "auto" a text is classified as a job posting
\* exactly when its job-keyword score is strictly greater than its
\* resume-keyword score, as a resume otherwise, and is handed to the matching
\* extractor; the same text is classified the same way every time.
C25_Auto ==
    {i \in 1..Len(calls) : /\ calls[i].op = "process_document_json"
                           /\ calls[i].asked = "auto"
                           /\ sanitize_input(calls[i].document_text).ok}

C25_DeterministicTieBreak ==
    \A i \in C25_Auto :
        LET r == calls[i].result
            body == sanitize_input(calls[i].document_text).output
            jobs == {k \in job_keywords : \E n \in 1..Len(body) : lower(body[n]) = k}
            resumes == {k \in resume_keywords : \E n \in 1..Len(body) : lower(body[n]) = k}
        IN /\ r.job_score = Cardinality(jobs)
           /\ r.resume_score = Cardinality(resumes)
           /\ r.document_type = "job_posting" <=> r.job_score > r.resume_score
           /\ r.document_type = "resume" <=> r.job_score <= r.resume_score
           /\ r.extractor = (IF r.document_type = "job_posting"
                              THEN "analyze_job_posting" ELSE "parse_resume")
           /\ \A j \in C25_Auto :
                 calls[j].document_text = calls[i].document_text
                    => calls[j].result.document_type = r.document_type

C25_Witness ==
    /\ Len(calls) = 2
    /\ C25_Auto = {1, 2}
    /\ calls[1].result.job_score = 1
    /\ calls[1].result.resume_score = 1
    /\ calls[1].result.document_type = "resume"
    /\ calls[1].run # calls[2].run

\* C26: an endpoint answers 400 when the sanitizer rejects the request text
\* or the request is invalid, 200 when the turn succeeds (a handled extraction
\* failure included), and 500 in neither of these cases.
C26_StatusCodes ==
    \A i \in 1..Len(calls) :
        calls[i].op \in {"process_document_endpoint", "parse_resume_endpoint"} =>
            LET rejected == \/ ~sanitize_input(calls[i].document_text).ok
                            \/ calls[i].asked \notin {"resume", "job_posting", "auto"}
            IN /\ (request_valid(calls[i].document_text) /\ rejected)
                    => calls[i].response.http_status = 400
               /\ ~rejected => calls[i].response.http_status = 200

\* C29: the success flag of process_document_json is True exactly when the
\* extractor it called returned operation_status "success".
C29_SuccessIffExtractorSucceeded ==
    \A i \in 1..Len(calls) :
        (calls[i].op = "process_document_json"
         /\ "success" \in calls[i].result.keys)
            => (calls[i].result.success
                    <=> calls[i].result.data.operation_status = "success")

\* C27: no error result handed to a caller holds the raw message of the
\* exception: an extractor's failure result exposes at most the exception's
\* type name or a fixed text.
C27_NoRawMessage ==
    \A i \in 1..Len(calls) :
        (~calls[i].raised /\ calls[i].operation_status # "success")
            => /\ calls[i].error # "raw_message"
               /\ calls[i].error_details # "raw_message"

\* C28: query_firestore reports an error of the caller's request at once: for
\* an empty collection name or an unsupported filter operator it raises
\* ValueError after one invocation and without a backoff sleep.
C28_InputErrorNotRetried ==
    \A i \in 1..Len(calls) :
        (calls[i].op = "query_firestore"
         /\ query_firestore_invalid(calls[i].collection, calls[i].operator))
            => /\ calls[i].raised
               /\ calls[i].exception = "ValueError"
               /\ calls[i].attempts = 1
               /\ calls[i].sleeps = 0

\* C30: the completion markers of a session describe the turn started last in
\* it: while a turn is between its before-callback and its after-callback,
\* the stored state reports no completion.
C30_MarkersDescribeLatestTurn ==
    \A t \in Turns :
        turns[t].pc = "agent" =>
            /\ ~sessions[turns[t].active_session_id].state.last_interaction_completed
            /\ sessions[turns[t].active_session_id].state.last_operation_status
                   # "completed"

====
